---- MODULE Spec2Model ----
(***************************************************************************)
(* Module lifecycle and economy engine of mln-backend-emulator:            *)
(* mln/models/module.py (class Module).  One placed module, its owner and  *)
(* two visitors.  Time is counted in ticks of one hour; a tick is also the *)
(* resolution of a timedelta (one microsecond in the program).             *)
(***************************************************************************)
EXTENDS Integers, Sequences, FiniteSets, TLC

\* ------------------------------------------------------------------ bounds
MaxVotes == 2
MaxTicks == 1
MaxElapsed == 13
MaxClicks == 3
MaxYieldPerDay == 7
MaxClicksPerYield == 3
MaxHeld == 2

\* --------------------------------------------------------------- constants
\* DAY, imported from .dynamic: one day, here in ticks of one hour.
DAY == 24

Owner == "owner"
Users == {"owner", "v1", "v2"}
Items == {"red", "blue", "gem"}

\* Values random.random() * 100 can take: one below every configured
\* probability and one that is not below 50 but below 100.
Draws == {0, 50}

\* Exceptions the handlers raise.
SelfInteraction == "ValueError: Can't vote on own module"
NoInteractionsRemaining == "RuntimeError: Voter has no votes left"
NotClickable == "RuntimeError: This module is not set up"
InsufficientInventory == "RuntimeError: insufficient inventory"
EmptyChoice == "IndexError: Cannot choose from an empty sequence"
NoYieldInfo == "ModuleHarvestYield.DoesNotExist"
DatetimeMinusInt == "TypeError: datetime - int"
NoSuchMethod == "AttributeError: _needs_setup"
NotSetupable == "RuntimeError: Module is not setupable."
PrizeTableMisconfigured == "RuntimeError: Should have chosen a prize but didn't for some reason"

\* Editor types whose settings classes contain ModuleSetupTrade.
TradeEditorTypes == {"LOOP_SHOPPE", "NETWORKER_TRADE", "STICKER_SHOPPE", "TRADE"}

\* The methods class Module defines.
ModuleMethods ==
    {"__str__", "save", "get_info", "is_setupable", "_calc_yield_info",
     "_get_random_friend", "calc_yield_qty", "get_yield_item_id", "is_clickable",
     "harvest", "setup", "teardown", "_update_clicks", "_distribute_items",
     "click", "select_arcade_prize", "get_settings_classes"}

\* ------------------------------------------------------------------- state
VARIABLES
    cfg,                        \* static configuration of the module's item and owner
    now,                        \* wall clock
    last_harvest_time,
    clicks_since_last_harvest,
    total_clicks,
    is_setup,                   \* "True", "False" or "None"
    available_votes,            \* profile.available_votes of each user
    inventory,                  \* InventoryStack quantities: user -> item -> qty
    sent,                       \* messages delivered to each user
    last,                       \* the last operation: its inputs and outcome
    pre,                        \* the state the last operation started from
    succ_clicks,                \* click() calls that returned normally
    harvest_calls,              \* harvest() calls
    tally,                      \* set-ups of the module, and what became of them
    inflight                    \* requests under way on their own Module instance

vars == <<cfg, now, last_harvest_time, clicks_since_last_harvest, total_clicks,
          is_setup, available_votes, inventory, sent, last, pre, succ_clicks,
          harvest_calls, tally, inflight>>

\* ----------------------------------------------------- static configuration
Cost(item, qty) == [item_id |-> item, qty |-> qty]
Yield(item, qty, probability) == [item_id |-> item, qty |-> qty, probability |-> probability]
Prize(item, qty, success_rate) == [item_id |-> item, qty |-> qty, success_rate |-> success_rate]
HarvestYield(ypd, cpy, max, item) ==
    [yield_per_day |-> ypd, clicks_per_yield |-> cpy, max_yield |-> max, yield_item_id |-> item]
Friendship(from, to, status) == [from_user |-> from, to_user |-> to, status |-> status]

Base ==
    [editor_type |-> "GENERIC", setup_costs |-> <<>>, trade |-> <<>>,
     harvest_yield |-> <<>>, execution_costs |-> <<>>, guest_yields |-> <<>>,
     owner_yields |-> <<>>, messages |-> <<>>, prizes |-> <<>>,
     is_networker |-> [u \in Users |-> FALSE], friendships |-> {}]

Plain == Base
Farm == [Base EXCEPT !.harvest_yield = <<HarvestYield(2, 1, 2, "gem")>>]
Trade ==
    [Base EXCEPT !.editor_type = "TRADE", !.trade = <<Cost("red", 1)>>,
                 !.harvest_yield = <<HarvestYield(1, 1, 3, "gem")>>,
                 !.owner_yields = <<Yield("gem", 1, 50)>>]
Shoppe ==
    [Base EXCEPT !.editor_type = "LOOP_SHOPPE", !.trade = <<Cost("red", 1)>>,
                 !.setup_costs = <<Cost("blue", 1)>>]
Itemized ==
    [Base EXCEPT !.setup_costs = <<Cost("red", 1), Cost("blue", 1)>>,
                 !.harvest_yield = <<HarvestYield(0, 2, 1, "gem")>>,
                 !.is_networker = [u \in Users |-> u = Owner]]
Executable ==
    [Base EXCEPT !.execution_costs = <<Cost("red", 1), Cost("blue", 1)>>,
                 !.guest_yields = <<Yield("gem", 1, 50), Yield("red", 1, 100)>>,
                 !.owner_yields = <<Yield("gem", 1, 100)>>]
Lonely ==
    [Base EXCEPT !.setup_costs = <<Cost("red", 1)>>,
                 !.messages = <<[probability |-> 50]>>,
                 !.is_networker = [u \in Users |-> u = "v2"],
                 !.friendships = {Friendship("v1", Owner, "PENDING"),
                                  Friendship(Owner, "v2", "FRIEND")}]
Social ==
    [Base EXCEPT !.setup_costs = <<Cost("red", 1)>>,
                 !.messages = <<[probability |-> 100]>>,
                 !.friendships = {Friendship("v1", Owner, "FRIEND"),
                                  Friendship(Owner, "v2", "FRIEND")}]

Configs == {Plain, Farm, Trade, Shoppe, Itemized, Executable, Lonely, Social}

\* ------------------------------------------------------ inventory ledger
\* services.inventory.add_inv_item
add_inv_item(inv, user, item_id, qty) ==
    [inv EXCEPT ![user][item_id] = @ + qty]

\* services.inventory.remove_inv_item: raises when the stack is too small.
can_remove_inv_item(inv, user, item_id, qty) ==
    inv[user][item_id] >= qty

remove_inv_item(inv, user, item_id, qty) ==
    [inv EXCEPT ![user][item_id] = @ - qty]

\* services.message.send_template
send_template(box, recipient) ==
    [box EXCEPT ![recipient] = @ + 1]

\* A loop of remove_inv_item calls over a cost list; it stops at the first
\* call that raises and keeps what the earlier calls removed.
RECURSIVE remove_costs(_, _, _, _)
remove_costs(inv, user, costs, i) ==
    IF i > Len(costs) THEN [ok |-> TRUE, inventory |-> inv]
    ELSE IF ~can_remove_inv_item(inv, user, costs[i].item_id, costs[i].qty)
         THEN [ok |-> FALSE, inventory |-> inv]
         ELSE remove_costs(remove_inv_item(inv, user, costs[i].item_id, costs[i].qty),
                           user, costs, i + 1)

\* A loop of add_inv_item calls over a cost list.
RECURSIVE add_costs(_, _, _, _)
add_costs(inv, user, costs, i) ==
    IF i > Len(costs) THEN inv
    ELSE add_costs(add_inv_item(inv, user, costs[i].item_id, costs[i].qty),
                   user, costs, i + 1)

\* ------------------------------------------------------------ Module methods
\* Module.is_setupable
is_setupable(c) ==
    c.editor_type = "TRADE" \/ Len(c.setup_costs) > 0

\* save testing for an item that can be set up.
save_if_setupable(c, s) ==
    IF c.editor_type = "TRADE" \/ Len(c.setup_costs) > 0
    THEN (IF s = "False" THEN "None" ELSE s)
    ELSE s

\* save writing is_setup as it is.
save_as_is(c, s) ==
    s

\* Module.save: the value of is_setup that is written.
save(c, s) ==
    IF ~is_setupable(c) /\ s = "False" THEN "None" ELSE s

\* is_clickable as the truth value of is_setup.
is_clickable_if_set_up(s) ==
    s = "True"

\* Module.is_clickable
is_clickable(s) ==
    s = "None" \/ s = "True"

\* timedelta / int as a floor division.
timedelta_div_floor(d, n) ==
    d \div n

\* timedelta / int: the quotient rounded half to even, in timedelta resolution.
timedelta_div(d, n) ==
    LET q == d \div n
        r == d % n
    IN IF 2 * r < n THEN q
       ELSE IF 2 * r > n THEN q + 1
       ELSE IF q % 2 = 0 THEN q ELSE q + 1

\* Module._calc_yield_info on configuration c, setup state s, elapsed time t
\* and click count k.  is_timedelta tells whether time_remainder is a
\* timedelta or the int 0 of the early returns.
_calc_yield_info(c, s, t, k) ==
    IF is_setupable(c) /\ s # "True"
    THEN [yield |-> 0, time_remainder |-> 0, click_remainder |-> 0, is_timedelta |-> FALSE]
    ELSE IF c.harvest_yield = <<>>
    THEN [yield |-> 0, time_remainder |-> 0, click_remainder |-> 0, is_timedelta |-> FALSE]
    ELSE
      LET yield_info == c.harvest_yield[1]
          period == timedelta_div(DAY, yield_info.yield_per_day)
          time_yield == IF yield_info.yield_per_day = 0 THEN 0 ELSE t \div period
          time_remainder == IF yield_info.yield_per_day = 0 THEN t ELSE t % period
          click_yield == IF yield_info.clicks_per_yield = 0 THEN 0
                         ELSE k \div yield_info.clicks_per_yield
          click_remainder == IF yield_info.clicks_per_yield = 0 THEN k
                             ELSE k % yield_info.clicks_per_yield
          final_yield == IF time_yield + click_yield < yield_info.max_yield
                         THEN time_yield + click_yield ELSE yield_info.max_yield
      IN [yield |-> final_yield, time_remainder |-> time_remainder,
          click_remainder |-> click_remainder, is_timedelta |-> TRUE]

\* Module._get_random_friend: the users random.choice can return.
_get_random_friend(c) ==
    LET incoming == {f \in c.friendships : f.to_user = Owner
                        /\ ~c.is_networker[f.from_user] /\ f.status = "FRIEND"}
        outgoing == {f \in c.friendships : f.from_user = Owner
                        /\ ~c.is_networker[f.to_user] /\ f.status = "FRIEND"}
    IN {f.from_user : f \in incoming} \cup {f.to_user : f \in outgoing}

\* _update_clicks testing the votes before the owner.
_update_clicks_votes_first(clicker) ==
    LET same == [err |-> "ok", available_votes |-> available_votes,
                 clicks_since_last_harvest |-> clicks_since_last_harvest,
                 total_clicks |-> total_clicks, is_setup |-> is_setup]
    IN IF available_votes[clicker] <= 0 THEN [same EXCEPT !.err = NoInteractionsRemaining]
       ELSE IF clicker = Owner THEN [same EXCEPT !.err = SelfInteraction]
       ELSE IF ~is_clickable(is_setup) THEN [same EXCEPT !.err = NotClickable]
       ELSE [err |-> "ok",
             available_votes |-> [available_votes EXCEPT ![clicker] = @ - 1],
             clicks_since_last_harvest |-> clicks_since_last_harvest + 1,
             total_clicks |-> total_clicks + 1,
             is_setup |-> save(cfg, is_setup)]

\* _update_clicks rejecting only a negative number of votes.
_update_clicks_negative(clicker) ==
    LET same == [err |-> "ok", available_votes |-> available_votes,
                 clicks_since_last_harvest |-> clicks_since_last_harvest,
                 total_clicks |-> total_clicks, is_setup |-> is_setup]
    IN IF clicker = Owner THEN [same EXCEPT !.err = SelfInteraction]
       ELSE IF available_votes[clicker] < 0 THEN [same EXCEPT !.err = NoInteractionsRemaining]
       ELSE IF ~is_clickable(is_setup) THEN [same EXCEPT !.err = NotClickable]
       ELSE [err |-> "ok",
             available_votes |-> [available_votes EXCEPT ![clicker] = @ - 1],
             clicks_since_last_harvest |-> clicks_since_last_harvest + 1,
             total_clicks |-> total_clicks + 1,
             is_setup |-> save(cfg, is_setup)]

\* _update_clicks forgetting the lifetime counter.
_update_clicks_no_total(clicker) ==
    LET same == [err |-> "ok", available_votes |-> available_votes,
                 clicks_since_last_harvest |-> clicks_since_last_harvest,
                 total_clicks |-> total_clicks, is_setup |-> is_setup]
    IN IF clicker = Owner THEN [same EXCEPT !.err = SelfInteraction]
       ELSE IF available_votes[clicker] <= 0 THEN [same EXCEPT !.err = NoInteractionsRemaining]
       ELSE IF ~is_clickable(is_setup) THEN [same EXCEPT !.err = NotClickable]
       ELSE [err |-> "ok",
             available_votes |-> [available_votes EXCEPT ![clicker] = @ - 1],
             clicks_since_last_harvest |-> clicks_since_last_harvest + 1,
             total_clicks |-> total_clicks,
             is_setup |-> save(cfg, is_setup)]

\* Module._update_clicks
_update_clicks(clicker) ==
    LET same == [err |-> "ok", available_votes |-> available_votes,
                 clicks_since_last_harvest |-> clicks_since_last_harvest,
                 total_clicks |-> total_clicks, is_setup |-> is_setup]
    IN IF clicker = Owner THEN [same EXCEPT !.err = SelfInteraction]
       ELSE IF available_votes[clicker] <= 0 THEN [same EXCEPT !.err = NoInteractionsRemaining]
       ELSE IF ~is_clickable(is_setup) THEN [same EXCEPT !.err = NotClickable]
       ELSE [err |-> "ok",
             available_votes |-> [available_votes EXCEPT ![clicker] = @ - 1],
             clicks_since_last_harvest |-> clicks_since_last_harvest + 1,
             total_clicks |-> total_clicks + 1,
             is_setup |-> save(cfg, is_setup)]

\* The guest and owner yield loops of _distribute_items: each entry whose
\* roll is below its probability is credited.
RECURSIVE add_yields(_, _, _, _, _)
add_yields(inv, user, yields, rolls, i) ==
    IF i > Len(yields) THEN inv
    ELSE add_yields(IF rolls[i] < yields[i].probability
                    THEN add_inv_item(inv, user, yields[i].item_id, yields[i].qty)
                    ELSE inv,
                    user, yields, rolls, i + 1)

\* The friend message loop of _distribute_items; random.choice raises on an
\* empty friend list.
RECURSIVE send_messages(_, _, _, _, _)
send_messages(box, messages, rolls, picks, i) ==
    IF i > Len(messages) THEN [ok |-> TRUE, sent |-> box]
    ELSE IF rolls[i] < messages[i].probability
         THEN IF _get_random_friend(cfg) = {}
              THEN [ok |-> FALSE, sent |-> box]
              ELSE send_messages(send_template(box, picks[i]), messages, rolls, picks, i + 1)
         ELSE send_messages(box, messages, rolls, picks, i + 1)

\* Module._distribute_items
_distribute_items(clicker, inv, guest_rolls, owner_rolls, msg_rolls, picks) ==
    LET paid == remove_costs(inv, clicker, cfg.execution_costs, 1)
    IN IF ~paid.ok
       THEN [err |-> InsufficientInventory, inventory |-> paid.inventory, sent |-> sent]
       ELSE
         LET guest == add_yields(paid.inventory, clicker, cfg.guest_yields, guest_rolls, 1)
             owner == add_yields(guest, Owner, cfg.owner_yields, owner_rolls, 1)
             msgs == send_messages(sent, cfg.messages, msg_rolls, picks, 1)
         IN [err |-> IF msgs.ok THEN "ok" ELSE EmptyChoice,
             inventory |-> owner, sent |-> msgs.sent]

\* The end of click taking the module down whoever owns it.
take_down_any_owner(s) ==
    IF s = "True" THEN save(cfg, "False") ELSE s

\* The end of click taking down only the modules of networkers.
take_down_networker_only(s) ==
    IF s = "True" /\ cfg.is_networker[Owner] THEN save(cfg, "False") ELSE s

\* The end of Module.click: a module that was set up is taken down, unless
\* its owner is a networker.
take_down(s) ==
    IF s = "True" /\ ~cfg.is_networker[Owner] THEN save(cfg, "False") ELSE s

\* ------------------------------------------------------------------ history
Snapshot ==
    [now |-> now, last_harvest_time |-> last_harvest_time,
     clicks_since_last_harvest |-> clicks_since_last_harvest,
     total_clicks |-> total_clicks, is_setup |-> is_setup,
     available_votes |-> available_votes, inventory |-> inventory, sent |-> sent]

Outcome(op, err, clicker, guest_rolls, owner_rolls, msg_rolls, chance, ret) ==
    [op |-> op, err |-> err, clicker |-> clicker, guest_rolls |-> guest_rolls,
     owner_rolls |-> owner_rolls, msg_rolls |-> msg_rolls, chance |-> chance, ret |-> ret]

Plainly(op, err) == Outcome(op, err, "nobody", <<>>, <<>>, <<>>, 0, 0)

\* The tally of a module in setup state s: the set-up it comes with, none
\* refunded by teardown, none used up by a click or a harvest.
Tally(s) ==
    [setups |-> IF s = "True" THEN 1 ELSE 0, refunds |-> 0, consumed |-> 0]

\* Requests: the clicks of the two visitors and a harvest of the owner, each
\* on the Module instance it loaded.
Idle ==
    [pc |-> "idle", err |-> "ok",
     self |-> [last_harvest_time |-> 0, clicks_since_last_harvest |-> 0,
               total_clicks |-> 0, is_setup |-> "None"]]

NoRequests == [p \in Users |-> Idle]

\* ------------------------------------------------------------------ actions
\* Module.click
click(clicker) ==
    \E guest_rolls \in [1..Len(cfg.guest_yields) -> Draws],
       owner_rolls \in [1..Len(cfg.owner_yields) -> Draws],
       msg_rolls \in [1..Len(cfg.messages) -> Draws],
       picks \in [1..Len(cfg.messages) -> _get_random_friend(cfg) \cup {"nobody"}] :
      LET u == _update_clicks(clicker)
          d == _distribute_items(clicker, inventory, guest_rolls, owner_rolls, msg_rolls, picks)
          err == IF u.err # "ok" THEN u.err ELSE d.err
      IN /\ \A i \in 1..Len(cfg.messages) :
               picks[i] = "nobody" <=> (_get_random_friend(cfg) = {} \/ u.err # "ok")
         /\ u.err # "ok" =>
               /\ guest_rolls = [i \in 1..Len(cfg.guest_yields) |-> 0]
               /\ owner_rolls = [i \in 1..Len(cfg.owner_yields) |-> 0]
               /\ msg_rolls = [i \in 1..Len(cfg.messages) |-> 0]
         /\ available_votes' = u.available_votes
         /\ clicks_since_last_harvest' = u.clicks_since_last_harvest
         /\ total_clicks' = u.total_clicks
         /\ inventory' = IF u.err = "ok" THEN d.inventory ELSE inventory
         /\ sent' = IF u.err = "ok" THEN d.sent ELSE sent
         /\ is_setup' = IF err = "ok" THEN take_down(u.is_setup) ELSE u.is_setup
         /\ succ_clicks' = IF err = "ok" THEN succ_clicks + 1 ELSE succ_clicks
         /\ last' = Outcome("click", err, clicker, guest_rolls, owner_rolls, msg_rolls, 0,
                            IF err = "ok" THEN Len(cfg.guest_yields) ELSE 0)
         /\ pre' = Snapshot
         /\ tally' = IF err = "ok" /\ u.is_setup = "True" /\ take_down(u.is_setup) # "True"
                     THEN [tally EXCEPT !.consumed = @ + 1] ELSE tally
         /\ UNCHANGED <<cfg, now, last_harvest_time, harvest_calls, inflight>>

\* harvest clearing the lifetime counter along with the click counter.
harvest_zeroes_total ==
    LET y == _calc_yield_info(cfg, is_setup, now - last_harvest_time, clicks_since_last_harvest)
        err == IF cfg.harvest_yield = <<>> THEN NoYieldInfo
               ELSE IF ~y.is_timedelta THEN DatetimeMinusInt
               ELSE "ok"
    IN /\ inventory' = IF err = NoYieldInfo THEN inventory
                       ELSE add_inv_item(inventory, Owner, cfg.harvest_yield[1].yield_item_id, y.yield)
       /\ last_harvest_time' = IF err = "ok" THEN now - y.time_remainder ELSE last_harvest_time
       /\ clicks_since_last_harvest' = IF err = "ok" THEN y.click_remainder
                                       ELSE clicks_since_last_harvest
       /\ total_clicks' = IF err = "ok" THEN 0 ELSE total_clicks
       /\ is_setup' = IF err = "ok" THEN save(cfg, "False") ELSE is_setup
       /\ harvest_calls' = 1
       /\ last' = Plainly("harvest", err)
       /\ pre' = Snapshot
       /\ tally' = IF err = "ok" /\ is_setup = "True"
                   THEN [tally EXCEPT !.consumed = @ + 1] ELSE tally
       /\ UNCHANGED <<cfg, now, available_votes, sent, succ_clicks, inflight>>

\* Module.harvest
harvest ==
    LET y == _calc_yield_info(cfg, is_setup, now - last_harvest_time, clicks_since_last_harvest)
        err == IF cfg.harvest_yield = <<>> THEN NoYieldInfo
               ELSE IF ~y.is_timedelta THEN DatetimeMinusInt
               ELSE "ok"
    IN /\ inventory' = IF err = NoYieldInfo THEN inventory
                       ELSE add_inv_item(inventory, Owner, cfg.harvest_yield[1].yield_item_id, y.yield)
       /\ last_harvest_time' = IF err = "ok" THEN now - y.time_remainder ELSE last_harvest_time
       /\ clicks_since_last_harvest' = IF err = "ok" THEN y.click_remainder
                                       ELSE clicks_since_last_harvest
       /\ is_setup' = IF err = "ok" THEN save(cfg, "False") ELSE is_setup
       /\ harvest_calls' = 1
       /\ last' = Plainly("harvest", err)
       /\ pre' = Snapshot
       /\ tally' = IF err = "ok" /\ is_setup = "True"
                   THEN [tally EXCEPT !.consumed = @ + 1] ELSE tally
       /\ UNCHANGED <<cfg, now, total_clicks, available_votes, sent, succ_clicks, inflight>>

\* setup resetting the harvest clock before it looks at is_setup.
setup_resets_clock ==
    LET costs == IF cfg.editor_type \in TradeEditorTypes THEN cfg.trade ELSE cfg.setup_costs
        paid == remove_costs(inventory, Owner, costs, 1)
        err == IF is_setup = "True" THEN "ok"
               ELSE IF "_needs_setup" \notin ModuleMethods THEN NoSuchMethod
               ELSE IF ~is_setupable(cfg) THEN NotSetupable
               ELSE IF ~paid.ok THEN InsufficientInventory
               ELSE "ok"
        reached == is_setup # "True" /\ err \in {"ok", InsufficientInventory}
    IN /\ inventory' = IF reached THEN paid.inventory ELSE inventory
       /\ is_setup' = IF reached /\ err = "ok" THEN save(cfg, "True") ELSE is_setup
       /\ last_harvest_time' = IF err = "ok" THEN now ELSE last_harvest_time
       /\ tally' = IF reached /\ err = "ok" THEN [tally EXCEPT !.setups = @ + 1] ELSE tally
       /\ last' = Plainly("setup", err)
       /\ pre' = Snapshot
       /\ UNCHANGED <<cfg, now, clicks_since_last_harvest, total_clicks, available_votes,
                      sent, succ_clicks, harvest_calls, inflight>>

\* Module.setup
setup ==
    LET costs == IF cfg.editor_type \in TradeEditorTypes THEN cfg.trade ELSE cfg.setup_costs
        paid == remove_costs(inventory, Owner, costs, 1)
        err == IF is_setup = "True" THEN "ok"
               ELSE IF "_needs_setup" \notin ModuleMethods THEN NoSuchMethod
               ELSE IF ~is_setupable(cfg) THEN NotSetupable
               ELSE IF ~paid.ok THEN InsufficientInventory
               ELSE "ok"
        reached == is_setup # "True" /\ err \in {"ok", InsufficientInventory}
    IN /\ inventory' = IF reached THEN paid.inventory ELSE inventory
       /\ is_setup' = IF reached /\ err = "ok" THEN save(cfg, "True") ELSE is_setup
       /\ last_harvest_time' = IF reached /\ err = "ok" THEN now ELSE last_harvest_time
       /\ tally' = IF reached /\ err = "ok" THEN [tally EXCEPT !.setups = @ + 1] ELSE tally
       /\ last' = Plainly("setup", err)
       /\ pre' = Snapshot
       /\ UNCHANGED <<cfg, now, clicks_since_last_harvest, total_clicks, available_votes,
                      sent, succ_clicks, harvest_calls, inflight>>

\* teardown refunding whatever the setup state.
teardown_any_state ==
    LET costs == IF cfg.editor_type \in TradeEditorTypes THEN cfg.trade ELSE cfg.setup_costs
    IN /\ inventory' = add_costs(inventory, Owner, costs, 1)
       /\ is_setup' = save(cfg, "False")
       /\ tally' = [tally EXCEPT !.refunds = @ + 1]
       /\ last' = Plainly("teardown", "ok")
       /\ pre' = Snapshot
       /\ UNCHANGED <<cfg, now, last_harvest_time, clicks_since_last_harvest, total_clicks,
                      available_votes, sent, succ_clicks, harvest_calls, inflight>>

\* Module.teardown
teardown ==
    LET costs == IF cfg.editor_type \in TradeEditorTypes THEN cfg.trade ELSE cfg.setup_costs
    IN /\ inventory' = IF is_setup = "True" THEN add_costs(inventory, Owner, costs, 1)
                       ELSE inventory
       /\ is_setup' = IF is_setup = "True" THEN save(cfg, "False") ELSE is_setup
       /\ tally' = IF is_setup = "True" THEN [tally EXCEPT !.refunds = @ + 1] ELSE tally
       /\ last' = Plainly("teardown", "ok")
       /\ pre' = Snapshot
       /\ UNCHANGED <<cfg, now, last_harvest_time, clicks_since_last_harvest, total_clicks,
                      available_votes, sent, succ_clicks, harvest_calls, inflight>>

\* A module of the item is placed: the field defaults of Module, then save().
place ==
    /\ last_harvest_time' = now
    /\ clicks_since_last_harvest' = 0
    /\ total_clicks' = 0
    /\ is_setup' = save(cfg, "False")
    /\ succ_clicks' = 0
    /\ harvest_calls' = 0
    /\ tally' = Tally("False")
    /\ last' = Plainly("place", "ok")
    /\ pre' = Snapshot
    /\ UNCHANGED <<cfg, now, available_votes, inventory, sent, inflight>>

\* The clock advances by half a day.
Tick ==
    /\ now + DAY \div 2 <= MaxTicks * (DAY \div 2)
    /\ now' = now + DAY \div 2
    /\ last' = Plainly("tick", "ok")
    /\ pre' = Snapshot
    /\ UNCHANGED <<cfg, last_harvest_time, clicks_since_last_harvest, total_clicks, is_setup,
                   available_votes, inventory, sent, succ_clicks, harvest_calls, tally,
                   inflight>>

\* ------------------------------------------------------------ specification
Stack(red, blue) == [i \in Items |-> IF i = "red" THEN red ELSE IF i = "blue" THEN blue ELSE 0]

InitInventories ==
    {[u \in Users |-> IF u = Owner THEN o ELSE IF u = "v1" THEN v ELSE Stack(1, 1)] :
        o \in {Stack(1, 0)},
        v \in {Stack(0, 0), Stack(1, 0), Stack(1, 1)}}

InitVotes ==
    {[u \in Users |-> IF u = Owner THEN o ELSE IF u = "v1" THEN v ELSE 1] :
        o \in {0, MaxVotes}, v \in 0..MaxVotes}

\* A module as placed (counters 0, the clock at the placement), in each setup
\* state a stored row of its item may hold: set-up rows are written through
\* the admin form of Module (mln/admin/__init__.py) and by earlier set-ups.
Init ==
    /\ cfg \in Configs
    /\ now = 0
    /\ last_harvest_time = 0
    /\ clicks_since_last_harvest = 0
    /\ total_clicks = 0
    /\ is_setup \in (IF is_setupable(cfg) THEN {"False", "True"} ELSE {"None"})
    /\ available_votes \in InitVotes
    /\ inventory \in InitInventories
    /\ sent = [u \in Users |-> 0]
    /\ last = Plainly("stored", "ok")
    /\ pre = Snapshot
    /\ succ_clicks = 0
    /\ harvest_calls = 0
    /\ tally = Tally(is_setup)
    /\ inflight = NoRequests

Next ==
    \/ \E clicker \in Users : click(clicker)
    \/ harvest
    \/ setup
    \/ teardown
    \/ place
    \/ Tick

Spec == Init /\ [][Next]_vars

\* ------------------------------------------------- the yield calculator alone
\* Module._calc_yield_info applied to the module as it stands.
calc_yield_info ==
    /\ last' = Outcome("_calc_yield_info", "ok", "nobody", <<>>, <<>>, <<>>, 0,
                       _calc_yield_info(cfg, is_setup, now - last_harvest_time,
                                        clicks_since_last_harvest))
    /\ pre' = Snapshot
    /\ UNCHANGED <<cfg, now, last_harvest_time, clicks_since_last_harvest, total_clicks,
                   is_setup, available_votes, inventory, sent, succ_clicks, harvest_calls,
                   tally, inflight>>

TradeBase == [Base EXCEPT !.editor_type = "TRADE", !.trade = <<Cost("red", 1)>>]

YieldConfigs ==
    {[b EXCEPT !.harvest_yield = <<HarvestYield(ypd, cpy, max, "gem")>>] :
        b \in {Base, TradeBase}, ypd \in 0..MaxYieldPerDay,
        cpy \in 0..MaxClicksPerYield, max \in {0, 2, 10}}

InitYield ==
    /\ cfg \in YieldConfigs
    /\ now \in 0..MaxElapsed
    /\ last_harvest_time = 0
    /\ clicks_since_last_harvest \in 0..MaxClicks
    /\ total_clicks = clicks_since_last_harvest
    /\ is_setup \in (IF is_setupable(cfg) THEN {"False", "True"} ELSE {"None"})
    /\ available_votes = [u \in Users |-> 0]
    /\ inventory = [u \in Users |-> Stack(0, 0)]
    /\ sent = [u \in Users |-> 0]
    /\ last = Plainly("stored", "ok")
    /\ pre = Snapshot
    /\ succ_clicks = 0
    /\ harvest_calls = 0
    /\ tally = Tally(is_setup)
    /\ inflight = NoRequests

NextYield == calc_yield_info

SpecYield == InitYield /\ [][NextYield]_vars

\* ------------------------------------------- requests on one module at a time
\* Each request works on the Module instance it loaded: the methods read and
\* write the instance's fields, and Model.save writes every field of the
\* instance to the row.
Row ==
    [last_harvest_time |-> last_harvest_time,
     clicks_since_last_harvest |-> clicks_since_last_harvest,
     total_clicks |-> total_clicks, is_setup |-> is_setup]

Visitors == Users \ {Owner}

\* A request receives its Module instance: a copy of the row's fields.
load(p) ==
    /\ inflight[p].pc = "idle"
    /\ inflight' = [inflight EXCEPT ![p] = [pc |-> "loaded", err |-> "ok", self |-> Row]]
    /\ UNCHANGED <<cfg, now, last_harvest_time, clicks_since_last_harvest, total_clicks,
                   is_setup, available_votes, inventory, sent, last, pre, succ_clicks,
                   harvest_calls, tally>>

\* Module._update_clicks, on the instance of the request of clicker.
request_update_clicks(clicker) ==
    LET self == inflight[clicker].self
        err == IF clicker = Owner THEN SelfInteraction
               ELSE IF available_votes[clicker] <= 0 THEN NoInteractionsRemaining
               ELSE IF ~is_clickable(self.is_setup) THEN NotClickable
               ELSE "ok"
        saved == [self EXCEPT !.clicks_since_last_harvest = @ + 1,
                              !.total_clicks = @ + 1,
                              !.is_setup = save(cfg, @)]
    IN /\ inflight[clicker].pc = "loaded"
       /\ IF err = "ok"
          THEN /\ available_votes' = [available_votes EXCEPT ![clicker] = @ - 1]
               /\ last_harvest_time' = saved.last_harvest_time
               /\ clicks_since_last_harvest' = saved.clicks_since_last_harvest
               /\ total_clicks' = saved.total_clicks
               /\ is_setup' = saved.is_setup
               /\ inflight' = [inflight EXCEPT ![clicker] =
                                  [pc |-> "counted", err |-> "ok", self |-> saved]]
          ELSE /\ inflight' = [inflight EXCEPT ![clicker] =
                                  [pc |-> "done", err |-> err, self |-> self]]
               /\ UNCHANGED <<available_votes, last_harvest_time, clicks_since_last_harvest,
                              total_clicks, is_setup>>
       /\ UNCHANGED <<cfg, now, inventory, sent, last, pre, succ_clicks, harvest_calls, tally>>

\* The rest of Module.click after _update_clicks, on the instance of the
\* request of clicker: _distribute_items, then the take-down and its save.
request_distribute_items(clicker) ==
    \E guest_rolls \in [1..Len(cfg.guest_yields) -> Draws],
       owner_rolls \in [1..Len(cfg.owner_yields) -> Draws],
       msg_rolls \in [1..Len(cfg.messages) -> Draws],
       picks \in [1..Len(cfg.messages) -> _get_random_friend(cfg) \cup {"nobody"}] :
      LET self == inflight[clicker].self
          d == _distribute_items(clicker, inventory, guest_rolls, owner_rolls, msg_rolls, picks)
          down == d.err = "ok" /\ take_down(self.is_setup) # self.is_setup
          saved == [self EXCEPT !.is_setup = take_down(@)]
      IN /\ inflight[clicker].pc = "counted"
         /\ \A i \in 1..Len(cfg.messages) :
               picks[i] = "nobody" <=> _get_random_friend(cfg) = {}
         /\ inventory' = d.inventory
         /\ sent' = d.sent
         /\ last_harvest_time' = IF down THEN saved.last_harvest_time ELSE last_harvest_time
         /\ clicks_since_last_harvest' = IF down THEN saved.clicks_since_last_harvest
                                         ELSE clicks_since_last_harvest
         /\ total_clicks' = IF down THEN saved.total_clicks ELSE total_clicks
         /\ is_setup' = IF down THEN saved.is_setup ELSE is_setup
         /\ succ_clicks' = IF d.err = "ok" THEN succ_clicks + 1 ELSE succ_clicks
         /\ inflight' = [inflight EXCEPT ![clicker] =
                            [pc |-> "done", err |-> d.err,
                             self |-> IF down THEN saved ELSE self]]
         /\ UNCHANGED <<cfg, now, available_votes, last, pre, harvest_calls, tally>>

\* Module.harvest, on the instance of the request of the owner.
request_harvest ==
    LET self == inflight[Owner].self
        y == _calc_yield_info(cfg, self.is_setup, now - self.last_harvest_time,
                              self.clicks_since_last_harvest)
        err == IF cfg.harvest_yield = <<>> THEN NoYieldInfo
               ELSE IF ~y.is_timedelta THEN DatetimeMinusInt
               ELSE "ok"
        saved == [self EXCEPT !.last_harvest_time = now - y.time_remainder,
                              !.clicks_since_last_harvest = y.click_remainder,
                              !.is_setup = save(cfg, "False")]
    IN /\ inflight[Owner].pc = "loaded"
       /\ inventory' = IF err = NoYieldInfo THEN inventory
                       ELSE add_inv_item(inventory, Owner, cfg.harvest_yield[1].yield_item_id, y.yield)
       /\ last_harvest_time' = IF err = "ok" THEN saved.last_harvest_time ELSE last_harvest_time
       /\ clicks_since_last_harvest' = IF err = "ok" THEN saved.clicks_since_last_harvest
                                       ELSE clicks_since_last_harvest
       /\ total_clicks' = IF err = "ok" THEN saved.total_clicks ELSE total_clicks
       /\ is_setup' = IF err = "ok" THEN saved.is_setup ELSE is_setup
       /\ harvest_calls' = 1
       /\ inflight' = [inflight EXCEPT ![Owner] =
                          [pc |-> "done", err |-> err,
                           self |-> IF err = "ok" THEN saved ELSE self]]
       /\ UNCHANGED <<cfg, now, available_votes, sent, last, pre, succ_clicks, tally>>

\* One request of each user on a stored module with no clicks yet: a click
\* of each visitor and a harvest of the owner.
InitConc == Init

NextConc ==
    \/ \E p \in Users : load(p)
    \/ \E clicker \in Visitors : request_update_clicks(clicker)
    \/ \E clicker \in Visitors : request_distribute_items(clicker)
    \/ request_harvest

SpecConc == InitConc /\ [][NextConc]_vars

\* ---------------------------------------------- the arcade prize selector alone
\* The prize loop accepting a running sum equal to chance.
RECURSIVE walk_prizes_at_chance(_, _, _, _)
walk_prizes_at_chance(prizes, chance, sum, i) ==
    IF i > Len(prizes) THEN 0
    ELSE IF sum + prizes[i].success_rate >= chance THEN i
    ELSE walk_prizes_at_chance(prizes, chance, sum + prizes[i].success_rate, i + 1)

\* The loop of Module.select_arcade_prize: the index of the first prize whose
\* running sum of success rates exceeds chance, 0 when the loop ends without one.
RECURSIVE walk_prizes(_, _, _, _)
walk_prizes(prizes, chance, sum, i) ==
    IF i > Len(prizes) THEN 0
    ELSE IF sum + prizes[i].success_rate > chance THEN i
    ELSE walk_prizes(prizes, chance, sum + prizes[i].success_rate, i + 1)

\* The items all users hold together.
Held(inv) ==
    LET of(u) == inv[u]["red"] + inv[u]["blue"] + inv[u]["gem"]
    IN of("owner") + of("v1") + of("v2")

\* Module.select_arcade_prize
select_arcade_prize(user) ==
    \E chance \in 0..99 :
      LET won == walk_prizes(cfg.prizes, chance, 0, 1)
      IN /\ Held(inventory) < MaxHeld
         /\ inventory' = IF won = 0 THEN inventory
                         ELSE add_inv_item(inventory, user, cfg.prizes[won].item_id,
                                           cfg.prizes[won].qty)
         /\ last' = Outcome("select_arcade_prize",
                            IF won = 0 THEN PrizeTableMisconfigured ELSE "ok",
                            user, <<>>, <<>>, <<>>, chance, won)
         /\ pre' = Snapshot
         /\ UNCHANGED <<cfg, now, last_harvest_time, clicks_since_last_harvest, total_clicks,
                        is_setup, available_votes, sent, succ_clicks, harvest_calls,
                        tally, inflight>>

PrizeTables ==
    {<<Prize("red", 1, 30), Prize("blue", 1, 70)>>,
     <<Prize("red", 1, 30), Prize("blue", 1, 50)>>,
     <<Prize("red", 1, 0), Prize("blue", 2, 100)>>,
     <<Prize("gem", 1, 50), Prize("red", 1, 0), Prize("blue", 1, 50)>>,
     <<Prize("gem", 1, 60), Prize("red", 1, 60)>>,
     <<Prize("gem", 1, 100)>>,
     <<>>}

InitPrize ==
    /\ cfg \in {[Base EXCEPT !.prizes = t] : t \in PrizeTables}
    /\ now = 0
    /\ last_harvest_time = 0
    /\ clicks_since_last_harvest = 0
    /\ total_clicks = 0
    /\ is_setup = "None"
    /\ available_votes = [u \in Users |-> 0]
    /\ inventory = [u \in Users |-> Stack(0, 0)]
    /\ sent = [u \in Users |-> 0]
    /\ last = Plainly("stored", "ok")
    /\ pre = Snapshot
    /\ succ_clicks = 0
    /\ harvest_calls = 0
    /\ tally = Tally(is_setup)
    /\ inflight = NoRequests

NextPrize == \E user \in Users : select_arcade_prize(user)

SpecPrize == InitPrize /\ [][NextPrize]_vars

\* ------------------------------------------------------------------- claims
\* What a click leaves alone when it changes nothing.
ClickChangedNothing ==
    /\ clicks_since_last_harvest = pre.clicks_since_last_harvest
    /\ total_clicks = pre.total_clicks
    /\ is_setup = pre.is_setup
    /\ available_votes = pre.available_votes
    /\ inventory = pre.inventory

\* C1: a click that fails because the visitor lacks an execution-cost item
\* leaves the counters, the setup state, the visitor's allowance and every
\* inventory balance as they were before the click.
C1_ClickAtomicOnFailure ==
    (last.op = "click" /\ last.err = InsufficientInventory) => ClickChangedNothing

\* A click got as far as the friend messages, one of their rolls succeeded
\* and the owner has no eligible friend.
FriendRollWithoutFriends ==
    /\ last.op = "click"
    /\ last.err \in {"ok", EmptyChoice}
    /\ _get_random_friend(cfg) = {}
    /\ \E i \in 1..Len(cfg.messages) : last.msg_rolls[i] < cfg.messages[i].probability

\* C2: when a friend-message roll succeeds and the owner has no eligible
\* friend, the click returns normally: the reward is skipped, the counters
\* and the allowance decrement are kept and the setup consumption still runs.
C2_EmptyFriendPoolIsNoOp ==
    FriendRollWithoutFriends =>
        /\ last.err = "ok"
        /\ total_clicks = pre.total_clicks + 1
        /\ clicks_since_last_harvest = pre.clicks_since_last_harvest + 1
        /\ available_votes[last.clicker] = pre.available_votes[last.clicker] - 1
        /\ sent = pre.sent
        /\ (pre.is_setup = "True" /\ ~cfg.is_networker[Owner]) => is_setup = "False"

\* The module yields: it needs no setup or is set up, and its item has a
\* yield configuration.
Eligible(c, s) ==
    /\ ~(is_setupable(c) /\ s # "True")
    /\ c.harvest_yield # <<>>

\* C3: harvest() completes without error in every lifecycle state and for
\* every item configuration, and credits nothing when the module is not
\* eligible for yield.
C3_HarvestAlwaysPermitted ==
    last.op = "harvest" =>
        /\ last.err = "ok"
        /\ ~Eligible(cfg, pre.is_setup) => inventory = pre.inventory

\* The click yield and remainder of the claim.
ClickYield(k, cpy) == IF cpy = 0 THEN 0 ELSE k \div cpy
ClickRemainder(k, cpy) == IF cpy = 0 THEN k ELSE k % cpy
Min(a, b) == IF a < b THEN a ELSE b

\* The yield calculator ran on an eligible module.
Calculated ==
    /\ last.op = "_calc_yield_info"
    /\ Eligible(cfg, is_setup)

NearestPeriod(n) ==
    CHOOSE p \in 0..DAY :
        LET off == IF p * n >= DAY THEN p * n - DAY ELSE DAY - p * n
        IN 2 * off < n \/ (2 * off = n /\ p % 2 = 0)

HoldsSetupCost(inv) ==
    remove_costs(inv, Owner,
                 IF cfg.editor_type \in TradeEditorTypes THEN cfg.trade ELSE cfg.setup_costs,
                 1).ok

\* C5: on a module that needs setup and whose owner holds the full setup
\* cost, setup() succeeds, and a teardown() right after it leaves every
\* balance of the owner as before the setup and the module in need of setup.
C5_SetupTeardownRoundTrip ==
    /\ [](  (last.op = "setup" /\ pre.is_setup = "False" /\ is_setupable(cfg)
               /\ HoldsSetupCost(pre.inventory))
            => (last.err = "ok" /\ is_setup = "True"))
    /\ [][ (last.op = "setup" /\ last.err = "ok" /\ pre.is_setup = "False"
               /\ last'.op = "teardown")
           => (inventory' = pre.inventory /\ is_setup' = "False") ]_vars

\* C6: a click by the owner fails with the self-interaction error whatever
\* the owner's allowance and the setup state, and changes nothing.
C6_SelfClickRejected ==
    (last.op = "click" /\ last.clicker = Owner) =>
        (last.err = SelfInteraction /\ ClickChangedNothing /\ sent = pre.sent)

\* C6 witness: the owner, without votes, clicked on the module while it
\* needed setup.
C6_Witness ==
    /\ last.op = "click"
    /\ last.clicker = Owner
    /\ last.err = SelfInteraction
    /\ available_votes[Owner] = 0
    /\ is_setup = "False"

\* C7: a click by a visitor without remaining allowance fails with the
\* no-votes error; the allowance stays zero and nothing else changes.
C7_NoVotesRejected ==
    (last.op = "click" /\ last.clicker # Owner /\ pre.available_votes[last.clicker] = 0) =>
        /\ last.err = NoInteractionsRemaining
        /\ available_votes[last.clicker] = 0
        /\ ClickChangedNothing
        /\ sent = pre.sent

\* C7 witness: a visitor who had used up the allowance clicked again.
C7_Witness ==
    /\ last.op = "click"
    /\ last.clicker = "v1"
    /\ last.err = NoInteractionsRemaining
    /\ available_votes["v1"] = 0
    /\ total_clicks > 0

\* The module's item has neither yields nor costs per click or harvest.
NoYieldsOrCosts ==
    /\ cfg.harvest_yield = <<>>
    /\ cfg.execution_costs = <<>>
    /\ cfg.guest_yields = <<>>
    /\ cfg.owner_yields = <<>>
    /\ cfg.messages = <<>>

\* C8: on a module placed with both counters 0 and no yields or costs, as
\* long as no harvest was called both counters equal the number of
\* successful clicks; a successful click raises both by one and lowers the
\* visitor's allowance by one, a rejected click changes neither.
C8_CountersCountClicks ==
    NoYieldsOrCosts =>
        /\ total_clicks = succ_clicks
        /\ harvest_calls = 0 => clicks_since_last_harvest = succ_clicks
        /\ (last.op = "click" /\ last.err = "ok") =>
              /\ total_clicks = pre.total_clicks + 1
              /\ clicks_since_last_harvest = pre.clicks_since_last_harvest + 1
              /\ available_votes =
                    [pre.available_votes EXCEPT ![last.clicker] = @ - 1]
        /\ (last.op = "click" /\ last.err # "ok") =>
              /\ total_clicks = pre.total_clicks
              /\ clicks_since_last_harvest = pre.clicks_since_last_harvest
              /\ available_votes = pre.available_votes

\* C8 witness: a rejected click after three successful ones, no harvest.
C8_Witness ==
    /\ NoYieldsOrCosts
    /\ harvest_calls = 0
    /\ succ_clicks = 3
    /\ total_clicks = 3
    /\ clicks_since_last_harvest = 3
    /\ last.op = "click"
    /\ last.err = NoInteractionsRemaining

\* The smallest index whose running sum of weights is above d, 0 if none.
WeightSum(prizes, k) ==
    LET RECURSIVE upto(_)
        upto(i) == IF i = 0 THEN 0 ELSE upto(i - 1) + prizes[i].success_rate
    IN upto(k)

Winner(prizes, d) ==
    LET above == {k \in 1..Len(prizes) : WeightSum(prizes, k) > d}
    IN IF above = {} THEN 0 ELSE CHOOSE k \in above : \A j \in above : k <= j

\* C9: select_arcade_prize picks the prize of smallest index whose
\* cumulative weight exceeds the draw, credits exactly that prize to the
\* user and returns it; when the weights sum to the draw or less it raises
\* the misconfiguration error and credits nothing.
C9_PrizeByCumulativeWeight ==
    last.op = "select_arcade_prize" =>
        LET k == Winner(cfg.prizes, last.chance)
            weights == [i \in 1..Len(cfg.prizes) |-> cfg.prizes[i].success_rate]
        IN /\ last.ret = k
           /\ IF k = 0
              THEN last.err = PrizeTableMisconfigured /\ inventory = pre.inventory
              ELSE /\ last.err = "ok"
                   /\ inventory = [pre.inventory EXCEPT
                          ![last.clicker][cfg.prizes[k].item_id] = @ + cfg.prizes[k].qty]
           /\ (weights = <<30, 70>> /\ last.chance = 29) => k = 1
           /\ (weights = <<30, 70>> /\ last.chance \in {30, 99}) => k = 2
           /\ (weights = <<30, 50>> /\ last.chance = 85) => last.err = PrizeTableMisconfigured

\* C9 witness: weights 30 and 70, a draw of exactly 30, the second prize won.
C9_Witness ==
    /\ last.op = "select_arcade_prize"
    /\ cfg.prizes = <<Prize("red", 1, 30), Prize("blue", 1, 70)>>
    /\ last.chance = 30
    /\ last.ret = 2
    /\ inventory[last.clicker]["blue"] = pre.inventory[last.clicker]["blue"] + 1

\* C10: after a successful click on a module that was set up, the module
\* needs setup again and the owner got nothing but owner yields if the owner
\* is no networker, and the module is still set up if the owner is one; a
\* module without setup concept stays so.
C10_ClickConsumesSetup ==
    (last.op = "click" /\ last.err = "ok") =>
        /\ (pre.is_setup = "True" /\ ~cfg.is_networker[Owner]) =>
              /\ is_setup = "False"
              /\ inventory[Owner] =
                    add_yields(pre.inventory, Owner, cfg.owner_yields, last.owner_rolls, 1)[Owner]
        /\ (pre.is_setup = "True" /\ cfg.is_networker[Owner]) => is_setup = "True"
        /\ pre.is_setup = "None" => is_setup = "None"

\* C10 witness: a click on a set-up trade module of an ordinary owner whose
\* owner yield fired.
C10_Witness ==
    /\ last.op = "click"
    /\ last.err = "ok"
    /\ pre.is_setup = "True"
    /\ ~cfg.is_networker[Owner]
    /\ is_setup = "False"
    /\ cfg.owner_yields # <<>>
    /\ inventory[Owner]["gem"] = pre.inventory[Owner]["gem"] + 1
    /\ inventory[Owner]["red"] = pre.inventory[Owner]["red"]

\* C11: a click by a visitor with allowance left is rejected as not set up
\* exactly when the module needs setup (a module without setup concept and
\* a set-up module are clickable), and the rejection changes nothing.
C11_NeedsSetupNotClickable ==
    (last.op = "click" /\ last.clicker # Owner /\ pre.available_votes[last.clicker] > 0) =>
        /\ last.err = NotClickable <=> pre.is_setup = "False"
        /\ pre.is_setup = "False" => (ClickChangedNothing /\ sent = pre.sent)

\* C11 witness: a visitor with a vote clicked on a module in need of setup.
C11_Witness ==
    /\ last.op = "click"
    /\ last.clicker = "v2"
    /\ last.err = NotClickable
    /\ pre.is_setup = "False"
    /\ available_votes["v2"] = 1

\* State and inventories are as before the last operation.
SetupChangedNothing ==
    /\ is_setup = pre.is_setup
    /\ last_harvest_time = pre.last_harvest_time
    /\ inventory = pre.inventory

\* C12: setup() on a set-up module returns without consuming anything or
\* touching the harvest clock; setup() on a module whose item has no setup
\* requirement fails with the not-setupable error and changes nothing.
C12_SetupNoOpOrNotSetupable ==
    last.op = "setup" =>
        /\ pre.is_setup = "True" => (last.err = "ok" /\ SetupChangedNothing)
        /\ ~is_setupable(cfg) =>
              (last.err = NotSetupable /\ is_setup = "None" /\ SetupChangedNothing)

C15_HarvestAppliesYield ==
    (last.op = "harvest" /\ last.err = "ok") =>
        LET y == _calc_yield_info(cfg, pre.is_setup, pre.now - pre.last_harvest_time,
                                  pre.clicks_since_last_harvest)
        IN /\ inventory = [pre.inventory EXCEPT
                  ![Owner][cfg.harvest_yield[1].yield_item_id] = @ + y.yield]
           /\ clicks_since_last_harvest = y.click_remainder
           /\ last_harvest_time = now - y.time_remainder
           /\ total_clicks = pre.total_clicks
           /\ is_setup = IF pre.is_setup = "True" THEN "False" ELSE pre.is_setup

\* C15 witness: a module without setup concept harvested half a day and one
\* click after its last harvest.
C15_Witness ==
    /\ last.op = "harvest"
    /\ last.err = "ok"
    /\ pre.is_setup = "None"
    /\ is_setup = "None"
    /\ pre.clicks_since_last_harvest = 1
    /\ pre.now - pre.last_harvest_time = DAY \div 2
    /\ inventory[Owner]["gem"] = pre.inventory[Owner]["gem"] + 2
    /\ last_harvest_time = now

\* C18: setup, teardown, clicks (rejected or not) and the passage of time
\* decrease neither clicks_since_last_harvest nor the time elapsed since the
\* last harvest.
C18_AccrualNeverDecreases ==
    last.op \in {"setup", "teardown", "click", "tick"} =>
        /\ clicks_since_last_harvest >= pre.clicks_since_last_harvest
        /\ now - last_harvest_time >= pre.now - pre.last_harvest_time

\* C18 witness: setup() called on a set-up module that has accrued a click
\* and half a day.
C18_Witness ==
    /\ last.op = "setup"
    /\ last.err = "ok"
    /\ clicks_since_last_harvest > 0
    /\ now - last_harvest_time > 0

\* C19: setup() on a module in need of setup whose owner holds the setup
\* cost succeeds and resets the harvest clock to now, and the yield
\* calculator then returns 0 at the same instant.
C19_SetupDiscardsPendingYield ==
    (last.op = "setup" /\ pre.is_setup = "False" /\ is_setupable(cfg)
        /\ HoldsSetupCost(pre.inventory)) =>
        /\ last.err = "ok"
        /\ last_harvest_time = now
        /\ _calc_yield_info(cfg, is_setup, now - last_harvest_time,
                            clicks_since_last_harvest).yield = 0

\* The quantity of an item in a cost list.
CostOf(costs, item) ==
    LET RECURSIVE upto(_)
        upto(i) == IF i = 0 THEN 0
                   ELSE upto(i - 1) + (IF costs[i].item_id = item THEN costs[i].qty ELSE 0)
    IN upto(Len(costs))

SetupCosts ==
    IF cfg.editor_type \in TradeEditorTypes THEN cfg.trade ELSE cfg.setup_costs

C17_NoSetupMeansNotApplicable ==
    /\ ~is_setupable(cfg) => is_setup = "None"
    /\ last.op = "place" => is_setup = (IF is_setupable(cfg) THEN "False" ELSE "None")

\* C17 witness: a module without setup requirement placed anew after a
\* harvest of the one before it.
C17_Witness ==
    /\ last.op = "place"
    /\ ~is_setupable(cfg)
    /\ is_setup = "None"
    /\ pre.is_setup = "None"
    /\ inventory[Owner]["gem"] > 0

\* C20: total_clicks of a module never decreases, and
\* 0 <= clicks_since_last_harvest <= total_clicks.
C20_ClickCountersOrdered ==
    /\ 0 <= clicks_since_last_harvest
    /\ clicks_since_last_harvest <= total_clicks
    /\ last.op \notin {"place", "stored"} => total_clicks >= pre.total_clicks

\* C20 witness: a harvest turned two clicks into yield, the lifetime counter
\* keeping them.
C20_Witness ==
    /\ last.op = "harvest"
    /\ last.err = "ok"
    /\ pre.clicks_since_last_harvest = 2
    /\ clicks_since_last_harvest = 0
    /\ total_clicks = 2

\* Both visitors' clicks have returned without an exception.
BothClicked ==
    \A clicker \in Visitors : inflight[clicker].pc = "done" /\ inflight[clicker].err = "ok"

\* C13: when the clicks of two visitors on the same module both succeed,
\* total_clicks ends exactly 2 higher, and so does clicks_since_last_harvest
\* when no harvest ran; no request on the module makes total_clicks lower,
\* and no click puts back the setup state a harvest has replaced.
C13_ClicksSerialized ==
    /\ [](BothClicked => total_clicks = 2)
    /\ [](BothClicked /\ inflight[Owner].pc \in {"idle", "loaded"}
            => clicks_since_last_harvest = 2)
    /\ [][total_clicks' >= total_clicks]_vars
    /\ [][is_setup = "False" => is_setup' = "False"]_vars

\* A module with a setup requirement whose owner is not a networker.
OneClickPerSetup == is_setupable(cfg) /\ ~cfg.is_networker[Owner]

====
